---- MODULE Spec2Model ----
(***************************************************************************)
(* Model of wwvb_dec.c: the WWVB time-signal decoder.  A buffer of 0/1     *)
(* carrier samples is searched for the best frame start (find_frame), the  *)
(* fields of the frame at that start are decoded (decode_frame), the day   *)
(* number is converted to month/day (daynum_to_month_day) and a            *)
(* reliability tier is printed (main).                                     *)
(***************************************************************************)
EXTENDS Integers, Sequences, FiniteSets, TLC

(***************************************************************************)
(* Program constants (wwvb_dec.c:22-28).                                   *)
(***************************************************************************)
SAMP_PERIOD == 25
BUF_LEN_IN_SEC == 120
SAMPLES_PER_SEC == 1000 \div SAMP_PERIOD
BLEN == SAMPLES_PER_SEC * BUF_LEN_IN_SEC
DECODE_FAILURE == 9999

(***************************************************************************)
(* Field codes (wwvb_dec.c:39-47): <<second in frame, weight>>.            *)
(***************************************************************************)
C(b, w) == [bit |-> b, weight |-> w]

minutes_code == <<C(1, 40), C(2, 20), C(3, 10), C(5, 8), C(6, 4), C(7, 2), C(8, 1)>>
hours_code == <<C(12, 20), C(13, 10), C(15, 8), C(16, 4), C(17, 2), C(18, 1)>>
day_code == <<C(22, 200), C(23, 100), C(25, 80), C(26, 40), C(27, 20), C(28, 10),
              C(30, 8), C(31, 4), C(32, 2), C(33, 1)>>
year_code == <<C(45, 80), C(46, 40), C(47, 20), C(48, 10), C(50, 8), C(51, 4),
               C(52, 2), C(53, 1)>>
lyi_code == <<C(55, 1)>>
lsw_code == <<C(56, 1)>>
dst_code == <<C(57, 2), C(58, 1)>>

\* Indices into frame[] (wwvb_dec.c:72-78), shifted by one: sequences start at 1.
HOURS == 1
MINUTES == 2
DAYNUM == 3
YEAR == 4
LYI == 5
LSW == 6
DST == 7

\* frame[i].code (wwvb_dec.c:61-69); code_len is Len of the code.
frame_code == <<hours_code, minutes_code, day_code, year_code, lyi_code, lsw_code, dst_code>>

NFIELDS == Len(frame_code)

\* frame[] as initialised at wwvb_dec.c:62-68: value, score, worst_score = 0xffffffff,
\* the uint32_t that is -1 as a 32-bit signed integer (the integers of the checker).
\* decode_frame overwrites all three before main reads them.
UNSET == -1

frame_init == [i \in 1..NFIELDS |-> [value |-> UNSET, score |-> UNSET, worst_score |-> UNSET]]

(***************************************************************************)
(* frame_const_fields (wwvb_dec.c:173-195): type 0 = zero, 2 = mark.       *)
(***************************************************************************)
K(t, s) == [type |-> t, sec |-> s]

frame_const_fields == <<K(2, 0), K(0, 4), K(2, 9), K(0, 10), K(0, 11), K(0, 14), K(2, 19),
                        K(0, 20), K(0, 21), K(0, 24), K(2, 29), K(0, 34), K(0, 35), K(2, 39),
                        K(0, 44), K(2, 49), K(0, 54), K(2, 59)>>

VARIABLES
  infile,      \* which input the buffer bits[] was filled with (0: not filled yet)
  pc,          \* position in main / in the function under test
  samp_idx,    \* find_frame: loop variable
  lmin,        \* find_frame: running minimum
  min_idx,     \* find_frame: offset of the running minimum
  rd_hi,       \* highest index of bits[] read so far (-1: none)
  frame_idx,   \* main: the frame start handed to decode_frame
  min_val,     \* main: *min_val of find_frame
  frame,       \* frame[i].value / .score / .worst_score
  score,       \* main: return value of decode_frame
  sec,         \* result of the last decode_sec under test: [type, score]
  cal,         \* daynum_to_month_day: arguments, outcome, *month, *day, indices written
  summary      \* main: frame_worst_sec_score and the tier printed

vars == <<infile, pc, samp_idx, lmin, min_idx, rd_hi, frame_idx, min_val, frame,
          score, sec, cal, summary>>

(***************************************************************************)
(* The samples the buffer is filled with (fill_buffer_file,                *)
(* wwvb_dec.c:86-99, or fill_buffer_gpio, wwvb_dec.c:120-131).  A frame is *)
(* 60 seconds; a second is a symbol's ideal waveform (wwvb_dec.c:342-344:  *)
(* marker 80% zeros then ones, zero 20%, one 50%), or an arbitrary second  *)
(* given by the number of 1-samples in each of its four segments.          *)
(***************************************************************************)
FRAME_SECS == 60

FRAME_LEN == FRAME_SECS * SAMPLES_PER_SEC

\* Number of leading 0-samples of the ideal waveform of symbol sym.
LowLen(sym) ==
  IF sym = 2 THEN 800 \div SAMP_PERIOD
  ELSE IF sym = 1 THEN 500 \div SAMP_PERIOD
  ELSE 200 \div SAMP_PERIOD

\* Sample k (0..SAMPLES_PER_SEC-1) of the ideal waveform of symbol sym.
Tmpl(sym, k) == IF k < LowLen(sym) THEN 0 ELSE 1

\* The four segments the three waveforms cut a second into: their first samples.
SegStart == <<0, LowLen(0), LowLen(1), LowLen(2), SAMPLES_PER_SEC>>

Seg(k) == IF k < LowLen(0) THEN 1 ELSE IF k < LowLen(1) THEN 2 ELSE IF k < LowLen(2) THEN 3 ELSE 4

SegLen(j) == SegStart[j + 1] - SegStart[j]

\* Sample k of a second with pat[j] 1-samples in segment j, put at the start of
\* the segment (pat[5] = 0) or at its end (pat[5] = 1).
PatSample(pat, k) ==
  LET j == Seg(k)
      o == k - SegStart[j]
  IN  IF pat[5] = 0 THEN (IF o < pat[j] THEN 1 ELSE 0)
      ELSE (IF o >= SegLen(j) - pat[j] THEN 1 ELSE 0)

\* The symbol sent in second s of a frame whose data seconds in ones are ONE.
FixedType(s) ==
  IF \E i \in 1..Len(frame_const_fields) : frame_const_fields[i].sec = s
  THEN (CHOOSE e \in {frame_const_fields[i] : i \in 1..Len(frame_const_fields)} : e.sec = s).type
  ELSE -1

FrameSym(ones, s) ==
  IF FixedType(s) >= 0 THEN FixedType(s) ELSE IF s \in ones THEN 1 ELSE 0

\* Deterministic pseudo-random sample errors; seed 0 is a clean signal.
Flip(seed, i) == seed > 0 /\ ((i * i + 7 * seed * i + 11 * seed) % 23) < 3

NoiseBit(seed, i) == (((i * i) \div 7 + 3 * seed * i + seed) % 5) % 2

\* The seconds a gallery is made of: every number of 1-samples in the two middle
\* segments, which decide the symbol, and EdgeCounts of them in the two outer ones.
EdgeCounts == <<0, 3, 8>>

NumPatterns == (SegLen(2) + 1) * (SegLen(3) + 1) * Len(EdgeCounts) * Len(EdgeCounts) * 2

SecPattern(n) ==
  LET nb == SegLen(2) + 1
      nc == SegLen(3) + 1
      ne == Len(EdgeCounts)
  IN  <<EdgeCounts[((n \div (nb * nc)) % ne) + 1], n % nb, (n \div nb) % nc,
        EdgeCounts[((n \div (nb * nc * ne)) % ne) + 1], (n \div (nb * nc * ne * ne)) % 2>>

NumGalleries == (NumPatterns + BUF_LEN_IN_SEC - 1) \div BUF_LEN_IN_SEC

\* The FRAME_LEN samples of the frame described by d: second d.inj is the
\* arbitrary second d.pat, the others are ideal waveforms; then the sample errors.
FrameSamples(d) ==
  LET syms == [s \in 0..(FRAME_SECS - 1) |-> FrameSym(d.ones, s)]
      tmpl == [sym \in 0..2 |-> [k \in 0..(SAMPLES_PER_SEC - 1) |-> Tmpl(sym, k)]]
      patt == [k \in 0..(SAMPLES_PER_SEC - 1) |-> PatSample(d.pat, k)]
      clean == [s \in 0..(FRAME_SECS - 1) |-> IF s = d.inj THEN patt ELSE tmpl[syms[s]]]
  IN  [j \in 0..(FRAME_LEN - 1) |->
         LET b == clean[j \div SAMPLES_PER_SEC][j % SAMPLES_PER_SEC]
         IN  IF Flip(d.seed, j) THEN 1 - b ELSE b]

\* The buffer holding frame samples fs as d says: once at d.p in a constant
\* carrier d.fill, or repeated with phase d.p.
Place(d, fs) ==
  [i \in 0..(BLEN - 1) |->
     IF d.kind = "periodic" THEN fs[(i + FRAME_LEN - d.p) % FRAME_LEN]
     ELSE IF i - d.p \in 0..(FRAME_LEN - 1) THEN fs[i - d.p]
     ELSE d.fill]

\* Gallery d.p: second s of the buffer is pattern d.p * BUF_LEN_IN_SEC + s.
Gallery(d) ==
  LET pats == [s \in 0..(BUF_LEN_IN_SEC - 1) |->
                 SecPattern((d.p * BUF_LEN_IN_SEC + s) % NumPatterns)]
      secs == [s \in 0..(BUF_LEN_IN_SEC - 1) |->
                 [k \in 0..(SAMPLES_PER_SEC - 1) |-> PatSample(pats[s], k)]]
  IN  [i \in 0..(BLEN - 1) |-> secs[i \div SAMPLES_PER_SEC][i % SAMPLES_PER_SEC]]

\* The buffer contents described by d.
MkBits(d) ==
  IF d.kind = "empty" THEN [i \in 0..(BLEN - 1) |-> 0]
  ELSE IF d.kind = "noise" THEN [i \in 0..(BLEN - 1) |-> NoiseBit(d.seed, i)]
  ELSE IF d.kind = "gallery" THEN Gallery(d)
  ELSE Place(d, FrameSamples(d))

NoPat == <<0, 0, 0, 0, 0>>

Desc(kind, p, fill, ones, inj, pat, seed) ==
  [kind |-> kind, p |-> p, fill |-> fill, ones |-> ones, inj |-> inj, pat |-> pat,
   seed |-> seed]

\* 17:34 on day 308 of year 26; 23:59 on day 60 of leap year 24, DST code 3;
\* every data second of day 465, LYI and LSW set, DST code 3.
OnesA == {2, 3, 6, 13, 16, 17, 18, 22, 23, 30, 47, 51, 52}

OnesB == {1, 3, 5, 8, 12, 17, 18, 26, 27, 47, 51, 55, 57, 58}

OnesC == {22, 23, 25, 26, 27, 28, 30, 31, 32, 33, 55, 56, 57, 58}

\* The whole program is run on: an empty input file (the buffer stays zero), noise,
\* a clean frame planted at each of PlantOffsets in a constant carrier, and a noisy
\* signal repeating a frame, as a live capture does.
MaxNoise == 1

PlantOffsets == <<0, 1234, BLEN - FRAME_LEN - 1, BLEN - FRAME_LEN>>

PlantFill == <<1, 0, 1, 0>>

MainInputs ==
  <<Desc("empty", 0, 0, {}, -1, NoPat, 0)>>
  \o [n \in 1..MaxNoise |-> Desc("noise", 0, 0, {}, -1, NoPat, n)]
  \o [n \in 1..Len(PlantOffsets) |->
        Desc("frame", PlantOffsets[n], PlantFill[n], OnesA, -1, NoPat, 0)]
  \o <<Desc("periodic", 700, 0, OnesB, -1, NoPat, 1)>>

\* decode_sec is run on the seconds of the galleries, of an empty buffer and of noise.
SecInputs ==
  [g \in 1..NumGalleries |-> Desc("gallery", g - 1, 0, {}, -1, NoPat, 0)]
  \o <<Desc("empty", 0, 0, {}, -1, NoPat, 0), Desc("noise", 0, 0, {}, -1, NoPat, 2)>>

\* The data seconds given an arbitrary second: the first, a middle and the last
\* second of hours, minutes and day, the first and last of year, and LYI, LSW
\* and both seconds of DST.
DecSecs == <<12, 15, 18, 1, 5, 8, 22, 28, 33, 45, 53, 55, 56, 57, 58>>

\* Arbitrary seconds: an ideal marker, silence, full carrier, ZERO = ONE,
\* ZERO = MARKER, MARKER best by one, the worst second that is no marker
\* (all three scores 28), and an ideal ONE with errors at both ends.
DecPatterns ==
  <<(<<0, 0, 0, 8, 0>>), (<<0, 0, 0, 0, 0>>), (<<8, 12, 12, 8, 0>>), (<<0, 6, 12, 8, 0>>),
    (<<0, 8, 4, 8, 1>>), (<<0, 7, 4, 8, 0>>), (<<8, 6, 6, 0, 1>>), (<<2, 0, 12, 5, 0>>)>>

MaxDecSeed == 1

DecPlant == 1200

DecOnes == <<OnesB, OnesC>>

\* decode_frame is run on clean and noisy frames, and on frames with one arbitrary
\* second in a data position.
DecInputs ==
  [n \in 1..(3 * (MaxDecSeed + 1)) |->
     Desc("frame", DecPlant, 0, (<<OnesA, OnesB, OnesC>>)[((n - 1) % 3) + 1], -1, NoPat,
          (n - 1) \div 3)]
  \o [n \in 1..(Len(DecSecs) * Len(DecPatterns)) |->
        Desc("frame", DecPlant, 0, DecOnes[(n % Len(DecOnes)) + 1],
             DecSecs[((n - 1) % Len(DecSecs)) + 1],
             DecPatterns[((n - 1) \div Len(DecSecs)) + 1], 0)]

\* All inputs, numbered; the contents of the buffer for each.
Inputs == MainInputs \o SecInputs \o DecInputs

MainIds == 1..Len(MainInputs)

SecIds == (Len(MainInputs) + 1)..(Len(MainInputs) + Len(SecInputs))

DecIds == (Len(MainInputs) + Len(SecInputs) + 1)..Len(Inputs)

Buffers == [n \in 1..Len(Inputs) |-> MkBits(Inputs[n])]

\* uint8_t bits[BLEN] (wwvb_dec.c:82): all zero in static storage, then what
\* fill_buffer_file or fill_buffer_gpio put there.  Nothing else writes it.
ZeroBuffer == [i \in 0..(BLEN - 1) |-> 0]

bits == IF infile = 0 THEN ZeroBuffer ELSE Buffers[infile]

\* The description of the input in the buffer.
InFile == Inputs[infile]

Max2(a, b) == IF a > b THEN a ELSE b

SetMax(S) == CHOOSE h \in S : \A g \in S : g <= h

\* The element of a one-element set.  The({e(x) : x \in {v}}) is e(v) with v
\* evaluated once, as an assignment to a local variable is.
The(S) == CHOOSE x \in S : TRUE

\* Bitwise xor of two values in {0, 1} (the ^ of wwvb_dec.c:143,147).
Xor(a, b) == IF a = b THEN 0 ELSE 1

\* bits[i].  An index outside the array is undefined behaviour: the actions
\* detect it through rd_hi and stop in pc = "oob"; the value read there is unused.
Rd(i) == IF i \in 0..(BLEN - 1) THEN bits[i] ELSE 0

(***************************************************************************)
(* xor_sec (wwvb_dec.c:138-151).  Each loop adds ideal ^ bits[i] for the   *)
(* i of its span: the number of i whose xor is 1.                          *)
(***************************************************************************)
xor_loop(ideal, first, end) ==
  Cardinality({i \in first..(end - 1) : Xor(ideal, Rd(i)) = 1})

xor_sec(idx, zero_len, one_len) ==
  xor_loop(0, idx, idx + zero_len) + xor_loop(1, idx + zero_len, idx + zero_len + one_len)

xor_mark(idx) == xor_sec(idx, 800 \div SAMP_PERIOD, 200 \div SAMP_PERIOD)

xor_zero(idx) == xor_sec(idx, 200 \div SAMP_PERIOD, 800 \div SAMP_PERIOD)

xor_one(idx) == xor_sec(idx, 500 \div SAMP_PERIOD, 500 \div SAMP_PERIOD)

\* Last index xor_sec reads for a one-second span starting at idx.
SecLast(idx) == idx + SAMPLES_PER_SEC - 1

(***************************************************************************)
(* xor_frame (wwvb_dec.c:201-225).  The loop over frame_const_fields with  *)
(* its early return; n is the number of entries evaluated.                 *)
(***************************************************************************)
\* The switch of wwvb_dec.c:207-216 for entry e: res.
xor_frame_entry(idx, e) ==
  IF e.type = 0 THEN xor_zero(idx + e.sec * SAMPLES_PER_SEC)
  ELSE IF e.type = 2 THEN xor_mark(idx + e.sec * SAMPLES_PER_SEC)
  ELSE 0

RECURSIVE xor_frame_loop(_, _, _, _)
xor_frame_loop(idx, min_v, i, sum) ==
  IF i > Len(frame_const_fields) THEN [sum |-> sum, n |-> i - 1]
  ELSE The({IF s2 > min_v THEN [sum |-> s2, n |-> i]
            ELSE xor_frame_loop(idx, min_v, i + 1, s2) :
            s2 \in {sum + xor_frame_entry(idx, frame_const_fields[i])}})

xor_frame(idx, min_v) == xor_frame_loop(idx, min_v, 1, 0)

\* Highest index read by a call of xor_frame that evaluated entries 1..n.
frame_last(idx, n) ==
  SetMax({-1} \cup {SecLast(idx + frame_const_fields[i].sec * SAMPLES_PER_SEC) : i \in 1..n})

(***************************************************************************)
(* find_frame (wwvb_dec.c:232-249).                                        *)
(***************************************************************************)
\* min_idx = BLEN + BLEN (wwvb_dec.c:236)
find_frame_min_idx0 == BLEN + BLEN

\* lmin = SAMPLES_PER_SEC * 120 (wwvb_dec.c:237)
find_frame_lmin0 == SAMPLES_PER_SEC * 120

find_frame_end_one_second_late == BLEN - SAMPLES_PER_SEC * 59

\* the loop bound of wwvb_dec.c:239: samp_idx < BLEN - SAMPLES_PER_SEC*60
find_frame_end == BLEN - SAMPLES_PER_SEC * 60

find_frame_better_or_equal(res, cur) == res <= cur

\* res < lmin (wwvb_dec.c:241)
find_frame_better(res, cur) == res < cur

\* One iteration of the loop of find_frame (wwvb_dec.c:239-245).
find_frame_step ==
  /\ pc = "find"
  /\ samp_idx < find_frame_end
  /\ \E r \in {xor_frame(samp_idx, lmin)} :
       \E hi \in {frame_last(samp_idx, r.n)} :
         /\ rd_hi' = Max2(rd_hi, hi)
         /\ IF hi >= BLEN
            THEN pc' = "oob" /\ UNCHANGED <<samp_idx, lmin, min_idx>>
            ELSE /\ pc' = pc
                 /\ samp_idx' = samp_idx + 1
                 /\ IF find_frame_better(r.sum, lmin)
                    THEN lmin' = r.sum /\ min_idx' = samp_idx
                    ELSE UNCHANGED <<lmin, min_idx>>
  /\ UNCHANGED <<infile, frame_idx, min_val, frame, score, sec, cal, summary>>

\* Loop exit and return of find_frame (wwvb_dec.c:247-248), assigned at wwvb_dec.c:429.
find_frame_return ==
  /\ pc = "find"
  /\ ~(samp_idx < find_frame_end)
  /\ min_val' = lmin
  /\ frame_idx' = min_idx
  /\ pc' = "decode"
  /\ UNCHANGED <<infile, samp_idx, lmin, min_idx, rd_hi, frame, score, sec, cal, summary>>

(***************************************************************************)
(* decode_sec (wwvb_dec.c:259-283): [type, score].                         *)
(***************************************************************************)
decode_sec_one_wins_on_tie(one_score, zero_score) == one_score <= zero_score

\* one_score < zero_score (wwvb_dec.c:267)
decode_sec_one_wins(one_score, zero_score) == one_score < zero_score

decode_sec_mark_wins_reversed(mark_score, lscore) == mark_score > lscore

\* mark_score < lscore (wwvb_dec.c:275)
decode_sec_mark_wins(mark_score, lscore) == mark_score < lscore

\* wwvb_dec.c:267-282 for the three scores.
decode_sec_best(zero_score, one_score, mark_score) ==
  IF decode_sec_one_wins(one_score, zero_score)
  THEN (IF decode_sec_mark_wins(mark_score, one_score)
        THEN [type |-> 2, score |-> mark_score] ELSE [type |-> 1, score |-> one_score])
  ELSE (IF decode_sec_mark_wins(mark_score, zero_score)
        THEN [type |-> 2, score |-> mark_score] ELSE [type |-> 0, score |-> zero_score])

decode_sec(idx) ==
  The({decode_sec_best(zero_score, one_score, mark_score) :
       zero_score \in {xor_zero(idx)}, one_score \in {xor_one(idx)},
       mark_score \in {xor_mark(idx)}})

(***************************************************************************)
(* decode_field (wwvb_dec.c:296-318).  The loop over the code with its     *)
(* early return; n is the number of positions classified.                  *)
(***************************************************************************)
\* The return of wwvb_dec.c:307-309, reached with field_val and *worst_score as
\* accumulated so far.
decode_field_fail_keeps_value(i, field_val, worst) ==
  [value |-> field_val, score |-> DECODE_FAILURE, worst_score |-> SAMPLES_PER_SEC, n |-> i]

decode_field_fail_keeps_worst(i, field_val, worst) ==
  [value |-> 0, score |-> DECODE_FAILURE, worst_score |-> worst, n |-> i]

decode_field_fail(i, field_val, worst) ==
  [value |-> 0, score |-> DECODE_FAILURE, worst_score |-> SAMPLES_PER_SEC, n |-> i]

\* The body of the loop for position i after decode_sec returned r
\* (wwvb_dec.c:305-313), and the iterations after it.
RECURSIVE decode_field_loop(_, _, _, _, _, _)
decode_field_body(fidx, code, i, lscore, field_val, worst, r) ==
  The({IF r.type = 2 THEN decode_field_fail(i, field_val, w2)
       ELSE decode_field_loop(fidx, code, i + 1, lscore + r.score,
                              field_val + code[i].weight * r.type, w2) :
       w2 \in {IF r.score > worst THEN r.score ELSE worst}})

decode_field_loop(fidx, code, i, lscore, field_val, worst) ==
  IF i > Len(code)
  THEN [value |-> field_val, score |-> lscore, worst_score |-> worst, n |-> i - 1]
  ELSE The({decode_field_body(fidx, code, i, lscore, field_val, worst, r) :
            r \in {decode_sec(fidx + code[i].bit * SAMPLES_PER_SEC)}})

decode_field(fidx, code) == decode_field_loop(fidx, code, 1, 0, 0, 0)

\* Highest index read by a call of decode_field that classified positions 1..n.
field_last(fidx, code, n) ==
  SetMax({-1} \cup {SecLast(fidx + code[i].bit * SAMPLES_PER_SEC) : i \in 1..n})

RECURSIVE SumScore(_, _)
SumScore(f, n) == IF n = 0 THEN 0 ELSE f[n].score + SumScore(f, n - 1)

(***************************************************************************)
(* decode_frame (wwvb_dec.c:323-336), called at wwvb_dec.c:435.            *)
(***************************************************************************)
decode_frame ==
  /\ pc = "decode"
  /\ \E res \in {[i \in 1..NFIELDS |-> decode_field(frame_idx, frame_code[i])]} :
       \E hi \in {SetMax({field_last(frame_idx, frame_code[i], res[i].n) : i \in 1..NFIELDS})} :
         /\ rd_hi' = Max2(rd_hi, hi)
         /\ IF hi >= BLEN
            THEN pc' = "oob" /\ UNCHANGED <<frame, score>>
            ELSE /\ frame' = [i \in 1..NFIELDS |->
                               [value |-> res[i].value, score |-> res[i].score,
                                worst_score |-> res[i].worst_score]]
                 /\ score' = SumScore(res, NFIELDS)
                 /\ pc' = "daynum"
  /\ UNCHANGED <<infile, samp_idx, lmin, min_idx, frame_idx, min_val, sec, cal, summary>>

(***************************************************************************)
(* daynum_to_month_day (wwvb_dec.c:365-381).                               *)
(***************************************************************************)
\* uint32_t daysums[] (wwvb_dec.c:367), indexed 0..11 as in the source.
daysums_len == 12

daysums0 ==
  LET t == <<31, 59, 90, 120, 151, 181, 212, 243, 273, 304, 334, 365>>
  IN  [i \in 0..(daysums_len - 1) |-> t[i + 1]]

\* The bounds of the leap-year loop: for (i = 1; i < 13; i++) (wwvb_dec.c:370).
leap_first == 1

leap_end == 13

\* Indices i for which the leap-year loop executes daysums[i] += 1.
leap_indices == {i \in 0..(leap_end - 1) : i >= leap_first}

(* A write of daysums[i] with i >= 12 is outside the array: undefined         *)
(* behaviour.  What the build can make of it: the word after the array is   *)
(* not used again ("none"), it is the slot holding daynum, which is then    *)
(* one higher ("daynum"), or it is a stack guard or saved register and the  *)
(* call does not return ("abort").                                          *)
OobWriteOutcomes == {"none", "daynum", "abort"}

\* The while loop of wwvb_dec.c:372-374; a result of daysums_len or more means
\* the loop went on to read daysums[] past its last entry.
RECURSIVE month_search(_, _, _)
month_search(ds, daynum, month) ==
  IF month >= daysums_len THEN month
  ELSE IF ds[month] < daynum THEN month_search(ds, daynum, month + 1)
  ELSE month

cal_init == [daynum |-> 0, leap |-> 0, wr |-> {}, status |-> "none", month |-> 0, day |-> 0]

\* The call daynum_to_month_day(dn, &month, &day, ly); pc becomes next when it returns.
daynum_to_month_day(dn, ly, next) ==
  LET wr == IF ly # 0 THEN leap_indices ELSE {}
      outcomes == IF \E i \in wr : i >= daysums_len THEN OobWriteOutcomes ELSE {"none"}
  IN  \E w \in outcomes :
        LET ds == [i \in 0..(daysums_len - 1) |-> daysums0[i] + (IF i \in wr THEN 1 ELSE 0)]
            daynum == IF w = "daynum" THEN dn + 1 ELSE dn
            m == month_search(ds, daynum, 0)
            st == IF w = "abort" THEN "abort" ELSE IF m >= daysums_len THEN "oob" ELSE "ok"
        IN  /\ cal' = [daynum |-> dn, leap |-> ly, wr |-> wr, status |-> st,
                       month |-> IF st = "ok" THEN m + 1 ELSE 0,
                       day |-> IF st # "ok" THEN 0
                               ELSE IF m > 0 THEN daynum - ds[m - 1] ELSE daynum]
            /\ pc' = IF st = "ok" THEN next ELSE st

\* wwvb_dec.c:437
main_daynum ==
  /\ pc = "daynum"
  /\ daynum_to_month_day(frame[DAYNUM].value, frame[LYI].value, "report")
  /\ UNCHANGED <<infile, samp_idx, lmin, min_idx, rd_hi, frame_idx, min_val, frame,
                 score, sec, summary>>

(***************************************************************************)
(* main, wwvb_dec.c:455-471: frame_worst_sec_score and the tier printed.   *)
(***************************************************************************)
\* The thresholds of wwvb_dec.c:466 and 468.
tier_ok_below == 7

tier_unreliable_below == 10

tier(w) ==
  IF w < tier_ok_below THEN "LIKELY OK"
  ELSE IF w < tier_unreliable_below THEN "NOT RELIABLE"
  ELSE "PROBABLY BAD"

\* The loop of wwvb_dec.c:457-460.
RECURSIVE frame_worst(_, _, _)
frame_worst(f, i, w) ==
  IF i > NFIELDS THEN w
  ELSE frame_worst(f, i + 1, IF f[i].worst_score > w THEN f[i].worst_score ELSE w)

summary_init == [frame_worst_sec_score |-> 0, tier |-> "none"]

main_report ==
  /\ pc = "report"
  /\ LET w == frame_worst(frame, 1, 0)
     IN  summary' = [frame_worst_sec_score |-> w, tier |-> tier(w)]
  /\ pc' = "done"
  /\ UNCHANGED <<infile, samp_idx, lmin, min_idx, rd_hi, frame_idx, min_val, frame,
                 score, sec, cal>>

(***************************************************************************)
(* main (wwvb_dec.c:412-429): the buffer is filled, then searched.         *)
(***************************************************************************)
fill_buffer(ids) ==
  /\ pc = "fill"
  /\ infile' \in ids
  /\ samp_idx' = 0
  /\ lmin' = find_frame_lmin0
  /\ min_idx' = find_frame_min_idx0
  /\ pc' = "find"
  /\ UNCHANGED <<rd_hi, frame_idx, min_val, frame, score, sec, cal, summary>>

main_fill == fill_buffer(MainIds)

\* Static storage: bits[] is all zero, frame[] as initialised at wwvb_dec.c:61-69.
InitAt(start) ==
  /\ infile = 0
  /\ pc = start
  /\ samp_idx = 0
  /\ lmin = 0
  /\ min_idx = 0
  /\ rd_hi = -1
  /\ frame_idx = 0
  /\ min_val = 0
  /\ frame = frame_init
  /\ score = 0
  /\ sec = [type |-> -1, score |-> 0]
  /\ cal = cal_init
  /\ summary = summary_init

Init == InitAt("fill")

Next ==
  \/ main_fill
  \/ find_frame_step
  \/ find_frame_return
  \/ decode_frame
  \/ main_daynum
  \/ main_report

Spec == Init /\ [][Next]_vars

(***************************************************************************)
(* decode_sec on its own: a buffer is filled and one second of it, aligned *)
(* with the seconds of the buffer or SecPhase samples late, is classified. *)
(***************************************************************************)
SecPhase == 13

SecOffsets ==
  {o \in 0..(BLEN - SAMPLES_PER_SEC) : o % SAMPLES_PER_SEC \in {0, SecPhase % SAMPLES_PER_SEC}}

sec_fill ==
  /\ pc = "sec_fill"
  /\ infile' \in SecIds
  /\ samp_idx' \in SecOffsets
  /\ pc' = "sec"
  /\ UNCHANGED <<lmin, min_idx, rd_hi, frame_idx, min_val, frame, score, sec, cal, summary>>

sec_decode ==
  /\ pc = "sec"
  /\ \E hi \in {SecLast(samp_idx)} :
       /\ rd_hi' = Max2(rd_hi, hi)
       /\ IF hi >= BLEN THEN pc' = "oob" /\ UNCHANGED sec
          ELSE sec' = decode_sec(samp_idx) /\ pc' = "sec_done"
  /\ UNCHANGED <<infile, samp_idx, lmin, min_idx, frame_idx, min_val, frame, score,
                 cal, summary>>

InitSec == InitAt("sec_fill")

NextSec == sec_fill \/ sec_decode

SpecSec == InitSec /\ [][NextSec]_vars

(***************************************************************************)
(* decode_frame at a given frame start, then the rest of main.             *)
(***************************************************************************)
\* The frame starts tried: the planted one, and DecSkew samples late.
DecSkew == 3

dec_fill ==
  /\ pc = "dec_fill"
  /\ \E n \in DecIds : \E st \in {Inputs[n].p, Inputs[n].p + DecSkew} :
       infile' = n /\ frame_idx' = st
  /\ pc' = "decode"
  /\ UNCHANGED <<samp_idx, lmin, min_idx, rd_hi, min_val, frame, score, sec, cal, summary>>

InitDec == InitAt("dec_fill")

NextDec == dec_fill \/ decode_frame \/ main_daynum \/ main_report

SpecDec == InitDec /\ [][NextDec]_vars

(***************************************************************************)
(* daynum_to_month_day on its own: every day number the day field can hold *)
(* (0 to the sum of its weights), leap year or not.                        *)
(***************************************************************************)
RECURSIVE SumWeights(_, _)
SumWeights(code, n) == IF n = 0 THEN 0 ELSE code[n].weight + SumWeights(code, n - 1)

MaxDaynum == SumWeights(day_code, Len(day_code))

cal_call ==
  /\ pc = "cal"
  /\ \E dn \in 0..MaxDaynum, ly \in {0, 1} : daynum_to_month_day(dn, ly, "cal_done")
  /\ UNCHANGED <<infile, samp_idx, lmin, min_idx, rd_hi, frame_idx, min_val, frame,
                 score, sec, summary>>

InitCal == InitAt("cal")

NextCal == cal_call

SpecCal == InitCal /\ [][NextCal]_vars

(***************************************************************************)
(* What the claims are stated against: the number of samples of a second   *)
(* that differ from a symbol's ideal waveform, counted sample by sample.   *)
(***************************************************************************)
TemplErr(sym, idx) ==
  Cardinality({k \in 0..(SAMPLES_PER_SEC - 1) : bits[idx + k] # Tmpl(sym, k)})

Min2(a, b) == IF a < b THEN a ELSE b

SecDone == pc = "sec_done"

\* C1 as stated: decode_sec returns a symbol whose score is the minimum of the
\* ZERO, ONE and MARKER scores; when the ONE and ZERO scores are equal and do not
\* exceed the MARKER score the result is ONE, and when the best of ZERO/ONE equals
\* the MARKER score the result is not MARKER.
C1_OnePreferred ==
  SecDone =>
    LET z == TemplErr(0, samp_idx)
        o == TemplErr(1, samp_idx)
        m == TemplErr(2, samp_idx)
    IN  /\ sec.score = Min2(Min2(z, o), m)
        /\ sec.score = TemplErr(sec.type, samp_idx)
        /\ (o = z /\ z <= m) => sec.type = 1
        /\ Min2(z, o) = m => sec.type # 2

\* C1 amended: decode_sec returns a symbol whose score is the minimum of the
\* ZERO, ONE and MARKER scores; on exact ties it prefers ZERO over ONE over
\* MARKER: when the ONE and ZERO scores are equal and do not exceed the MARKER
\* score the result is ZERO, ONE is returned only when its score is strictly
\* below the ZERO score, and when the best of ZERO/ONE equals the MARKER score the
\* result is not MARKER.
C1_ZeroPreferred ==
  SecDone =>
    LET z == TemplErr(0, samp_idx)
        o == TemplErr(1, samp_idx)
        m == TemplErr(2, samp_idx)
    IN  /\ sec.score = Min2(Min2(z, o), m)
        /\ sec.score = TemplErr(sec.type, samp_idx)
        /\ (o = z /\ z <= m) => sec.type = 0
        /\ sec.type = 1 => o < z
        /\ Min2(z, o) = m => sec.type # 2

\* A second whose three scores are all equal has been classified, as ZERO.
C1_Witness ==
  /\ SecDone
  /\ TemplErr(0, samp_idx) = TemplErr(1, samp_idx)
  /\ TemplErr(1, samp_idx) = TemplErr(2, samp_idx)
  /\ sec.type = 0

AllZeroSec == \A k \in 0..(SAMPLES_PER_SEC - 1) : bits[samp_idx + k] = 0

\* C2 as stated: for a one-second span whose samples are all 0, decode_sec
\* returns ZERO with score 32, the length of the ZERO waveform's high sub-span.
C2_AllZeroIsZero ==
  (SecDone /\ AllZeroSec) =>
    /\ sec.type = 0
    /\ sec.score = SAMPLES_PER_SEC - LowLen(0)
    /\ sec.score = 32

\* C2 amended: for a one-second span whose samples are all 0, decode_sec returns
\* MARKER with score 8, the length of the MARKER waveform's high sub-span (20% of
\* the second); 32, the length of the ZERO waveform's high sub-span, is the ZERO
\* score of that span, and it is not the minimum.
C2_AllZeroIsMarker ==
  (SecDone /\ AllZeroSec) =>
    /\ sec.type = 2
    /\ sec.score = SAMPLES_PER_SEC - LowLen(2)
    /\ sec.score = 8
    /\ TemplErr(0, samp_idx) = 32

\* An all-zero second at the end of the buffer has been classified.
C2_Witness ==
  /\ SecDone
  /\ AllZeroSec
  /\ samp_idx = BLEN - SAMPLES_PER_SEC
  /\ sec.type = 2

(***************************************************************************)
(* The error of a candidate frame start over all 18 fixed positions, and   *)
(* the search without pruning.                                             *)
(***************************************************************************)
RECURSIVE FullErrFrom(_, _)
FullErrFrom(o, i) ==
  IF i > Len(frame_const_fields) THEN 0
  ELSE TemplErr(frame_const_fields[i].type, o + frame_const_fields[i].sec * SAMPLES_PER_SEC)
       + FullErrFrom(o, i + 1)

FullErr(o) == FullErrFrom(o, 1)

\* The offsets find_frame scans (wwvb_dec.c:239).
Scanned == 0..(BLEN - SAMPLES_PER_SEC * 60 - 1)

\* find_frame has just returned.
Found == pc = "decode"

\* The ZERO and MARKER errors of every one-second span of the buffer, tabulated
\* (f @@ <<>> is f, as a table of its values).
SecErrs ==
  [sym \in {0, 2} |-> [i \in 0..(BLEN - SAMPLES_PER_SEC) |-> TemplErr(sym, i)] @@ <<>>]

\* FullErrFrom(o, i), read from the table t of one-second errors.
RECURSIVE TabErrFrom(_, _, _)
TabErrFrom(t, o, i) ==
  IF i > Len(frame_const_fields) THEN 0
  ELSE t[frame_const_fields[i].type][o + frame_const_fields[i].sec * SAMPLES_PER_SEC]
       + TabErrFrom(t, o, i + 1)

\* C3: find_frame, with xor_frame abandoning a candidate whose partial sum exceeds
\* the running best, returns the same error and offset as the search that
\* computes the full error of every offset scanned: the error is the minimum over
\* the offsets scanned and the offset is the lowest one that has it.
C3_PruningKeepsResult ==
  Found =>
    \E t \in {SecErrs} :
      /\ frame_idx \in Scanned
      /\ min_val = TabErrFrom(t, frame_idx, 1)
      /\ min_val = FullErr(frame_idx)
      /\ \A o \in Scanned :
           IF o < frame_idx THEN TabErrFrom(t, o, 1) > min_val
           ELSE TabErrFrom(t, o, 1) >= min_val

\* find_frame has returned a best offset with a nonzero error, and a later
\* candidate was abandoned before its last fixed position.
C3_Witness ==
  /\ Found
  /\ min_val > 0
  /\ \E o \in Scanned :
       o > frame_idx /\ xor_frame(o, min_val).n < Len(frame_const_fields)

\* The buffer holds, from sample p on, 60 ideal seconds with the fixed positions
\* of a frame as frame_const_fields has them.
PerfectFrameAt(p) ==
  /\ p >= 0
  /\ p + FRAME_LEN <= BLEN
  /\ \A s \in 0..(FRAME_SECS - 1) :
       \E sym \in 0..2 : TemplErr(sym, p + s * SAMPLES_PER_SEC) = 0
  /\ FullErr(p) = 0

\* C4 as stated: when a perfectly encoded frame is planted at an offset p at which
\* the whole frame fits in the buffer (0 <= p <= BLEN - 60*SAMPLES_PER_SEC),
\* find_frame reports error 0, and returns p when no lower offset has zero error
\* over the fixed positions.
C4_PlantedFrameFound ==
  (Found /\ InFile.kind = "frame" /\ PerfectFrameAt(InFile.p)) =>
    /\ min_val = 0
    /\ (\A o \in 0..(InFile.p - 1) : FullErr(o) # 0) => frame_idx = InFile.p

\* C5: find_frame returns an offset in 0..BLEN - 60*SAMPLES_PER_SEC, never its
\* placeholder 2*BLEN, its loop variable never passes the loop bound, and every
\* index of bits[] read by find_frame, xor_frame, decode_frame and decode_field
\* lies in 0..BLEN-1.
C5_SearchInBounds ==
  /\ pc # "oob"
  /\ rd_hi < BLEN
  /\ pc = "find" => (samp_idx \in 0..(BLEN - SAMPLES_PER_SEC * 60) /\ min_idx <= 2 * BLEN)
  /\ pc \in {"decode", "daynum", "report", "done", "abort"} =>
       /\ frame_idx \in 0..(BLEN - SAMPLES_PER_SEC * 60)
       /\ frame_idx # 2 * BLEN

\* Noise was searched and the frame found in it decoded, reading up to the last
\* but one sample of the buffer.
C5_Witness ==
  /\ pc = "daynum"
  /\ InFile.kind = "noise"
  /\ rd_hi = BLEN - 2

(***************************************************************************)
(* decode_field, stated per field over all of its positions.               *)
(***************************************************************************)
\* decode_frame has just returned.
Decoded == pc = "daynum"

\* The classification of position i of field f at the frame start.
SymAt(f, i) == decode_sec(frame_idx + frame_code[f][i].bit * SAMPLES_PER_SEC)

\* The classifications of all positions of all fields at the frame start.
Syms == [f \in 1..NFIELDS |-> [i \in 1..Len(frame_code[f]) |-> SymAt(f, i)]]

\* In the classifications sy, field f has a position that is a MARKER.
HasMarker(sy, f) == \E i \in 1..Len(frame_code[f]) : sy[f][i].type = 2

RECURSIVE WeightedSum(_, _, _)
WeightedSum(sy, f, n) ==
  IF n = 0 THEN 0 ELSE frame_code[f][n].weight * sy[f][n].type + WeightedSum(sy, f, n - 1)

RECURSIVE ScoreSum(_, _, _)
ScoreSum(sy, f, n) == IF n = 0 THEN 0 ELSE sy[f][n].score + ScoreSum(sy, f, n - 1)

\* C6: a field with a position that classifies as MARKER decodes to value 0,
\* score DECODE_FAILURE and worst_score SAMPLES_PER_SEC, whatever the samples at
\* its other positions; any other field decodes to the weighted sum of its
\* classified bits, the sum of their scores and the maximum of their scores.
C6_FieldResult ==
  Decoded =>
    \E sy \in {Syms} : \A f \in 1..NFIELDS :
      IF HasMarker(sy, f)
      THEN frame[f] = [value |-> 0, score |-> DECODE_FAILURE, worst_score |-> SAMPLES_PER_SEC]
      ELSE /\ frame[f].value = WeightedSum(sy, f, Len(frame_code[f]))
           /\ frame[f].score = ScoreSum(sy, f, Len(frame_code[f]))
           /\ frame[f].worst_score =
                SetMax({sy[f][i].score : i \in 1..Len(frame_code[f])})

\* The day field failed on a marker at a later position, after a position that
\* classified as ONE and so had added its weight to the value, while another
\* field decoded to a nonzero value with a nonzero score.
C6_Witness ==
  /\ Decoded
  /\ frame[DAYNUM] = [value |-> 0, score |-> DECODE_FAILURE, worst_score |-> SAMPLES_PER_SEC]
  /\ \E sy \in {Syms} : \E i \in 2..Len(day_code) :
       /\ sy[DAYNUM][i].type = 2
       /\ \A j \in 1..(i - 1) : sy[DAYNUM][j].type # 2
       /\ \E j \in 1..(i - 1) : sy[DAYNUM][j].type = 1
  /\ \E g \in 1..NFIELDS :
       frame[g].score # DECODE_FAILURE /\ frame[g].score > 0 /\ frame[g].value > 0

Failed(f) == frame[f].score = DECODE_FAILURE

\* C10: after decode_frame, for each field, score = DECODE_FAILURE exactly when
\* worst_score = SAMPLES_PER_SEC, exactly when a position of the field classifies
\* as MARKER; a field that did not fail has worst_score <= 28 and
\* score <= 28 * code_len; and when a field failed, the frame-level worst score
\* main prints is SAMPLES_PER_SEC and the tier is PROBABLY BAD.
C10_SentinelUnambiguous ==
  /\ Decoded =>
       \E sy \in {Syms} : \A f \in 1..NFIELDS :
         /\ Failed(f) <=> frame[f].worst_score = SAMPLES_PER_SEC
         /\ Failed(f) <=> HasMarker(sy, f)
         /\ ~Failed(f) => /\ frame[f].worst_score <= 28
                          /\ frame[f].score <= 28 * Len(frame_code[f])
  /\ (pc = "done" /\ \E f \in 1..NFIELDS : Failed(f)) =>
       /\ summary.frame_worst_sec_score = SAMPLES_PER_SEC
       /\ summary.tier = "PROBABLY BAD"

\* The report was printed for a frame in which one field failed and another
\* decoded with every second at most 28 samples off.
C10_Witness ==
  /\ pc = "done"
  /\ \E f \in 1..NFIELDS : Failed(f)
  /\ \E f \in 1..NFIELDS : ~Failed(f) /\ frame[f].worst_score > 0
  /\ summary.tier = "PROBABLY BAD"

(***************************************************************************)
(* The calendar conversion, stated against the cumulative day counts.      *)
(***************************************************************************)
\* Days up to and including month m (1..12) of a leap or common year.
CumDays(m, leap) == daysums0[m - 1] + (IF leap # 0 /\ m >= 2 THEN 1 ELSE 0)

YearDays(leap) == IF leap # 0 THEN 366 ELSE 365

CalReturned == cal.status # "none"

\* C7 as stated: for every day number in 1..365 of a common year and 1..366 of a
\* leap year, daynum_to_month_day returns the first month whose cumulative day
\* count (leap-adjusted from February on) is >= the day number, and the day
\* number minus the previous month's cumulative count as the day, which is in
\* 1..31; in particular (59, common) -> 2/28, (60, leap) -> 2/29, (1, common) -> 1/1.
C7_MonthDay ==
  (CalReturned /\ cal.daynum \in 1..YearDays(cal.leap)) =>
    /\ cal.status = "ok"
    /\ cal.month \in 1..12
    /\ CumDays(cal.month, cal.leap) >= cal.daynum
    /\ \A m \in 1..(cal.month - 1) : CumDays(m, cal.leap) < cal.daynum
    /\ cal.day = cal.daynum - (IF cal.month = 1 THEN 0 ELSE CumDays(cal.month - 1, cal.leap))
    /\ cal.day \in 1..31
    /\ (cal.daynum = 59 /\ cal.leap = 0) => (cal.month = 2 /\ cal.day = 28)
    /\ (cal.daynum = 60 /\ cal.leap # 0) => (cal.month = 2 /\ cal.day = 29)
    /\ (cal.daynum = 1 /\ cal.leap = 0) => (cal.month = 1 /\ cal.day = 1)

\* C8 as stated: a day number of 0, or above 365 (366 in a leap year), makes
\* daynum_to_month_day report InvalidInput, not a month and day.
C8_InvalidInputRejected ==
  (CalReturned /\ cal.daynum \notin 1..YearDays(cal.leap)) => cal.status = "InvalidInput"

\* C9 as stated: in a leap year every index of daysums[] the adjustment writes
\* lies in 1..11.
C9_LeapWritesInTable ==
  (CalReturned /\ cal.leap # 0) => \A i \in cal.wr : i \in 1..(daysums_len - 1)

====
